---------------------------- MODULE Spec2Model ----------------------------
(***************************************************************************)
(* A model of godot-codegen/src/util.rs: the class-name to module-name     *)
(* converter (to_module_name), the type resolver (to_rust_type) and the    *)
(* bitfield operations emitted by make_enum_definition.                    *)
(*                                                                         *)
(* A Rust string is modelled as a sequence of one-character strings, so    *)
(* that prefixes, suffixes, searches and replacements are computed the way *)
(* the code computes them.                                                 *)
(***************************************************************************)
EXTENDS Integers, Sequences, FiniteSets, TLC

VARIABLES
    pc,          \* where the running call stands
    class_name,  \* to_module_name: the argument of the running call
    class_chars, \* to_module_name: the characters the iterator has yet to yield
    previous,    \* to_module_name: the 2-lookbehind <<previous-previous, previous>>
    result,      \* to_module_name: the output built so far
    history,     \* to_module_name: <<argument, output>> of the calls already finished
    ty,          \* to_rust_type: the raw type name
    ctx,         \* to_rust_type: the names ctx.is_engine_class answers true for
    ret,         \* to_rust_type: the returned RustTy, or Panic
    enum_,       \* make_enum_definition: the enum descriptor
    def,         \* make_enum_definition: the generated definition
    acc,         \* a value of the generated type (its ord)
    last         \* the operands and output of the last bitor call

vars == <<pc, class_name, class_chars, previous, result, history,
          ty, ctx, ret, enum_, def, acc, last>>

modVars == <<class_name, class_chars, previous, result, history>>
typeVars == <<ty, ctx, ret>>
enumVars == <<enum_, def, acc, last>>

(***************************************************************************)
(* Bounds of the model.                                                    *)
(***************************************************************************)
\* longest class name drawn from the small alphabet
MaxLen == 4
\* most words concatenated into a class name
MaxWords == 2
\* most parts concatenated into a raw type name
MaxParts == 3
\* most enumerators of an enum descriptor
MaxEnumerators == 3

(***************************************************************************)
(* Characters.                                                             *)
(***************************************************************************)
UpperSeq == <<"A", "B", "C", "D", "E", "F", "G", "H", "I", "J", "K", "L", "M",
              "N", "O", "P", "Q", "R", "S", "T", "U", "V", "W", "X", "Y", "Z">>
LowerSeq == <<"a", "b", "c", "d", "e", "f", "g", "h", "i", "j", "k", "l", "m",
              "n", "o", "p", "q", "r", "s", "t", "u", "v", "w", "x", "y", "z">>
DigitSeq == <<"0", "1", "2", "3", "4", "5", "6", "7", "8", "9">>

Range(s) == {s[i] : i \in 1..Len(s)}

\* u8::is_ascii_uppercase
is_ascii_uppercase(ch) == ch \in Range(UpperSeq)
\* u8::is_ascii_lowercase
is_ascii_lowercase(ch) == ch \in Range(LowerSeq)
\* u8::is_ascii_digit
is_ascii_digit(ch) == ch \in Range(DigitSeq)

\* u8::to_ascii_lowercase: only A-Z change
to_ascii_lowercase(ch) ==
    IF is_ascii_uppercase(ch)
    THEN LowerSeq[CHOOSE i \in 1..Len(UpperSeq) : UpperSeq[i] = ch]
    ELSE ch

\* Option::None, for a character that is not there
None == "None"
\* Option::None, for a string that is not there (no string: its one element
\* is not a character)
NoStr == <<"None">>
\* no value yet
Nothing == [tag |-> "Nothing"]

(***************************************************************************)
(* String operations of the standard library, as the code uses them.       *)
(***************************************************************************)
\* str::starts_with
starts_with(s, p) == Len(s) >= Len(p) /\ SubSeq(s, 1, Len(p)) = p
\* str::ends_with
ends_with(s, p) == Len(s) >= Len(p) /\ SubSeq(s, Len(s) - Len(p) + 1, Len(s)) = p
\* what str::strip_prefix yields when it yields Some
after_prefix(s, p) == SubSeq(s, Len(p) + 1, Len(s))
\* str::find: the first index (from 1) where pat starts, 0 for None
find(s, pat) ==
    LET hits == {i \in 1..(Len(s) - Len(pat) + 1) : SubSeq(s, i, i + Len(pat) - 1) = pat}
    IN  IF hits = {} THEN 0 ELSE CHOOSE i \in hits : \A j \in hits : i <= j
\* result.find(pat).map(|i| i..i + len) followed by replace_range(range, repl)
replace_first(s, pat, repl) ==
    LET i == find(s, pat)
    IN  IF i = 0 THEN s
        ELSE SubSeq(s, 1, i - 1) \o repl \o SubSeq(s, i + Len(pat), Len(s))

(***************************************************************************)
(* to_module_name.                                                         *)
(***************************************************************************)
NotUnderscore(ch) == ch # "_"
\* faulty variant: only the first underscore is removed
StripFirstOnly(s) ==
    LET i == find(s, <<"_">>)
    IN  IF i = 0 THEN s ELSE SubSeq(s, 1, i - 1) \o SubSeq(s, i + 1, Len(s))
\* faulty variant: no underscore is removed
KeepUnderscores(s) == s
\* class_name.bytes().filter(|&ch| ch != b'_')
strip_underscores(s) == SelectSeq(s, NotUnderscore)

\* class_chars.peek()
peek(chars) == IF chars = <<>> THEN None ELSE Head(chars)

\* None is not upper or number
is_upper_or_num(ch) == ch # None /\ (is_ascii_digit(ch) \/ is_ascii_uppercase(ch))

\* None is the default
is_lower_or(ch, default) == IF ch = None THEN default ELSE is_ascii_lowercase(ch)

\* faulty variant: the character two positions back is not looked at
CapsIgnoringTwoPrev(two_prev, one_prev, current, next) ==
    /\ is_upper_or_num(one_prev)
    /\ is_upper_or_num(current)
    /\ is_lower_or(next, FALSE)
\* the caps_to_lowercase condition of the loop
caps_to_lowercase(two_prev, one_prev, current, next) ==
    /\ is_upper_or_num(one_prev)
    /\ is_upper_or_num(current)
    /\ is_lower_or(next, FALSE)
    /\ ~is_lower_or(two_prev, TRUE)

\* Lowercase followed by Uppercase|Num
lower_to_uppercase(one_prev, current) ==
    is_lower_or(one_prev, FALSE) /\ is_upper_or_num(current)

\* one iteration of the while loop: what is pushed onto result
pushed(prev, current, next) ==
    IF caps_to_lowercase(prev[1], prev[2], current, next)
       \/ lower_to_uppercase(prev[2], current)
    THEN <<"_", to_ascii_lowercase(current)>>
    ELSE <<to_ascii_lowercase(current)>>

\* the whole while loop over the remaining characters
RECURSIVE convert_loop(_, _, _)
convert_loop(chars, prev, res) ==
    IF chars = <<>> THEN res
    ELSE convert_loop(Tail(chars),
                      <<prev[2], Head(chars)>>,
                      res \o pushed(prev, Head(chars), peek(Tail(chars))))

Str_vec_3 == <<"_", "v", "e", "c", "_", "3">>
Str_vec3_ == <<"_", "v", "e", "c", "3", "_">>
Str_gd_native == <<"g", "d", "_", "n", "a", "t", "i", "v", "e">>
Str_gdnative == <<"g", "d", "n", "a", "t", "i", "v", "e">>
Str_gd_script == <<"g", "d", "_", "s", "c", "r", "i", "p", "t">>
Str_gdscript == <<"g", "d", "s", "c", "r", "i", "p", "t">>
Str_gdnative_ == <<"g", "d", "n", "a", "t", "i", "v", "e", "_">>

\* the three corrections, in the order the code applies them
corrections(res) ==
    replace_first(
        replace_first(
            replace_first(res, Str_vec_3, Str_vec3_),
            Str_gd_native, Str_gdnative),
        Str_gd_script, Str_gdscript)

\* faulty variant: "gdnative" is returned as it is
NoRename(res) == res
\* To prevent clobbering `gdnative` during a glob import
rename_gdnative(res) == IF res = Str_gdnative THEN Str_gdnative_ ELSE res

\* everything after the loop
finish(res) == rename_gdnative(corrections(res))

\* the function as a whole
to_module_name(name) ==
    finish(convert_loop(strip_underscores(name), <<None, None>>, <<>>))

(***************************************************************************)
(* Class names the converter is run on: every string of at most MaxLen     *)
(* characters over an alphabet with one character of each kind, and every  *)
(* concatenation of at most MaxWords words.                                *)
(***************************************************************************)
RECURSIVE Concats(_, _)
Concats(parts, n) ==
    IF n = 0 THEN {<<>>}
    ELSE LET shorter == Concats(parts, n - 1)
         IN  shorter \cup {s \o p : s \in shorter, p \in parts}

\* upper, lower, digit, neither, underscore
Alphabet == {<<"A">>, <<"b">>, <<"2">>, <<"-">>, <<"_">>}

Str_GDNative == <<"G", "D", "N", "a", "t", "i", "v", "e">>
Str_GDScript == <<"G", "D", "S", "c", "r", "i", "p", "t">>
Str_Vec3 == <<"V", "e", "c", "3">>
Str_VEC3 == <<"V", "E", "C", "3">>
Str_Node2D == <<"N", "o", "d", "e", "2", "D">>

Words == {Str_GDNative, Str_GDScript, Str_Vec3, Str_VEC3, Str_Node2D,
          Str_gd_native, Str_gd_script, Str_gdnative, Str_vec_3,
          <<"A">>, <<"b">>, <<"_">>}

ClassNames == Concats(Alphabet, MaxLen) \cup Concats(Words, MaxWords)

(***************************************************************************)
(* The converter as a state machine: one loop iteration per step, then the *)
(* corrections and the rename, then the function may be called again on    *)
(* its own output.                                                         *)
(***************************************************************************)
IdleType == /\ ty = <<>> /\ ctx = {} /\ ret = Nothing
IdleEnum == /\ enum_ = Nothing /\ def = Nothing /\ acc = 0 /\ last = Nothing
IdleModule ==
    /\ class_name = <<>> /\ class_chars = <<>> /\ previous = <<None, None>>
    /\ result = <<>> /\ history = <<>>

InitModule ==
    /\ pc = "loop"
    /\ class_name \in ClassNames
    /\ class_chars = strip_underscores(class_name)
    /\ previous = <<None, None>>
    /\ result = <<>>
    /\ history = <<>>
    /\ IdleType
    /\ IdleEnum

\* while let Some(current) = class_chars.next() { ... }
LoopIteration ==
    /\ pc = "loop"
    /\ class_chars # <<>>
    /\ LET current == Head(class_chars)
           next == peek(Tail(class_chars))
       IN  /\ result' = result \o pushed(previous, current, next)
           /\ previous' = <<previous[2], current>>
    /\ class_chars' = Tail(class_chars)
    /\ UNCHANGED <<pc, class_name, history, typeVars, enumVars>>

\* the iterator is exhausted: corrections, rename, return
Return ==
    /\ pc = "loop"
    /\ class_chars = <<>>
    /\ result' = finish(result)
    /\ pc' = "done"
    /\ UNCHANGED <<class_name, class_chars, previous, history, typeVars, enumVars>>

\* the caller passes the output to to_module_name again
CallAgain ==
    /\ pc = "done"
    /\ history = <<>>
    /\ history' = Append(history, <<class_name, result>>)
    /\ class_name' = result
    /\ class_chars' = strip_underscores(result)
    /\ previous' = <<None, None>>
    /\ result' = <<>>
    /\ pc' = "loop"
    /\ UNCHANGED <<typeVars, enumVars>>

NextModule == LoopIteration \/ Return \/ CallAgain

SpecModule == InitModule /\ [][NextModule]_vars


(***************************************************************************)
(* Claims about to_module_name, checked under SpecModule.                  *)
(***************************************************************************)
UpperOrDigit(ch) == ch \in Range(UpperSeq) \cup Range(DigitSeq)
Lower(ch) == ch \in Range(LowerSeq)
Lowercased(ch) == to_ascii_lowercase(ch)

\* what an iteration appends when it does, or does not, emit a separator
Emits(sep, current) ==
    result' = result \o (IF sep THEN <<"_">> ELSE <<>>) \o <<Lowercased(current)>>

C7_NoUpperNoDoubleUnderscore ==
    pc = "done" =>
        /\ \A i \in 1..Len(result) : result[i] \notin Range(UpperSeq)
        /\ \A i \in 1..(Len(result) - 1) : ~(result[i] = "_" /\ result[i + 1] = "_")

\* a name with uppercase letters and underscores whose output was corrected
\* from "_vec_3" to "_vec3_"
C7_Witness ==
    /\ pc = "done"
    /\ \E i \in 1..Len(class_name) : class_name[i] \in Range(UpperSeq)
    /\ \E i \in 1..Len(class_name) : class_name[i] = "_"
    /\ find(result, Str_vec3_) # 0

\* C8 as stated: to_module_name("GDNative") does not return "gdnative_".
C8_GDNativeAsStated ==
    (pc = "done" /\ class_name = Str_GDNative) => result # Str_gdnative_

\* C8 amended: to_module_name("GDNative") returns "gdnative_".
C8_GDNative ==
    (pc = "done" /\ class_name = Str_GDNative) => result = Str_gdnative_

\* the call on "GDNative" has returned
C8_Witness == pc = "done" /\ class_name = Str_GDNative /\ history = <<>>

IsSnake(x) == \A i \in 1..Len(x) : x[i] \in Range(LowerSeq) \cup {"_"}

\* C10: for x made only of lowercase letters and underscores,
\* to_module_name(to_module_name(x)) = to_module_name(x).
C10_IdempotentOnSnake ==
    (pc = "done" /\ history # <<>> /\ IsSnake(history[1][1])) =>
        result = history[1][2]

\* the second call, on the output of "gd_native", has returned
C10_Witness ==
    /\ pc = "done"
    /\ history # <<>>
    /\ history[1][1] = Str_gd_native
    /\ history[1][2] = Str_gdnative_
    /\ class_name = Str_gdnative_

(***************************************************************************)
(* to_rust_type.                                                           *)
(***************************************************************************)
Str_int == <<"i", "n", "t">>
Str_float == <<"f", "l", "o", "a", "t">>
Str_String == <<"S", "t", "r", "i", "n", "g">>
Str_enum_Variant_Type ==
    <<"e", "n", "u", "m", ":", ":", "V", "a", "r", "i", "a", "n", "t", ".",
      "T", "y", "p", "e">>
Str_enum_Variant_Operator ==
    <<"e", "n", "u", "m", ":", ":", "V", "a", "r", "i", "a", "n", "t", ".",
      "O", "p", "e", "r", "a", "t", "o", "r">>
Str_enum_Vector3_Axis ==
    <<"e", "n", "u", "m", ":", ":", "V", "e", "c", "t", "o", "r", "3", ".",
      "A", "x", "i", "s">>
Str_i64 == <<"i", "6", "4">>
Str_f64 == <<"f", "6", "4">>
Str_GodotString == <<"G", "o", "d", "o", "t", "S", "t", "r", "i", "n", "g">>
Str_VariantType == <<"V", "a", "r", "i", "a", "n", "t", "T", "y", "p", "e">>
Str_VariantOperator ==
    <<"V", "a", "r", "i", "a", "n", "t", "O", "p", "e", "r", "a", "t", "o", "r">>
Str_Vector3Axis == <<"V", "e", "c", "t", "o", "r", "3", "A", "x", "i", "s">>
Str_enum == <<"e", "n", "u", "m", ":", ":">>
Str_bitfield == <<"b", "i", "t", "f", "i", "e", "l", "d", ":", ":">>
Str_typedarray == <<"t", "y", "p", "e", "d", "a", "r", "r", "a", "y", ":", ":">>
Str_Packed == <<"P", "a", "c", "k", "e", "d">>
Str_Array == <<"A", "r", "r", "a", "y">>
Str_global == <<"g", "l", "o", "b", "a", "l">>

\* The cases of RustTy. The token streams are kept as their parts:
\* TypedArray<elem>, module::name, Gd<class>.
BuiltinIdent(id) == [tag |-> "BuiltinIdent", ident |-> id]
BuiltinGeneric(elem) == [tag |-> "BuiltinGeneric", elem |-> elem]
EngineEnum(module, name) == [tag |-> "EngineEnum", module |-> module, name |-> name]
EngineClass(class) == [tag |-> "EngineClass", class |-> class]
\* the call does not return: a panic unwinds out of it
Panic == [tag |-> "Panic"]

\* format_ident!("{}", s) panics unless s is a valid identifier: not empty,
\* a letter or '_' first, then letters, digits and '_'.
valid_ident(s) ==
    /\ s # <<>>
    /\ s[1] \in Range(UpperSeq) \cup Range(LowerSeq) \cup {"_"}
    /\ \A i \in 2..Len(s) :
          s[i] \in Range(UpperSeq) \cup Range(LowerSeq) \cup Range(DigitSeq) \cup {"_"}

\* `value` is built from the identifiers ident() makes of `strs`; the first
\* one that is no identifier panics
ident(strs, value) == IF \A s \in strs : valid_ident(s) THEN value ELSE Panic

\* make_enum_name is ident
make_enum_name(strs, value) == ident(strs, value)

\* faulty variant: the table lacks "enum::Vector3.Axis"
HardcodedWithoutVector3Axis(t) ==
    CASE t = Str_int -> Str_i64
      [] t = Str_float -> Str_f64
      [] t = Str_String -> Str_GodotString
      [] t = Str_enum_Variant_Type -> Str_VariantType
      [] t = Str_enum_Variant_Operator -> Str_VariantOperator
      [] OTHER -> NoStr
\* the override table, NoStr for None
to_hardcoded_rust_type(t) ==
    CASE t = Str_int -> Str_i64
      [] t = Str_float -> Str_f64
      [] t = Str_String -> Str_GodotString
      [] t = Str_enum_Variant_Type -> Str_VariantType
      [] t = Str_enum_Variant_Operator -> Str_VariantOperator
      [] t = Str_enum_Vector3_Axis -> Str_Vector3Axis
      [] OTHER -> NoStr

\* ty.strip_prefix("enum::").or_else(|| ty.strip_prefix("bitfield::")),
\* None when neither prefix is there
qualified_enum_of(t) ==
    IF starts_with(t, Str_enum) THEN after_prefix(t, Str_enum)
    ELSE IF starts_with(t, Str_bitfield) THEN after_prefix(t, Str_bitfield)
    ELSE NoStr

\* the tokens of the qualified enum branch
enum_tokens(q) ==
    LET dot == find(q, <<".">>)
    IN  IF dot # 0
        THEN \* Class-local enum: split_once('.')
             LET class == SubSeq(q, 1, dot - 1)
                 enum_name == SubSeq(q, dot + 1, Len(q))
                 module == to_module_name(class)
             IN  make_enum_name({module, enum_name}, EngineEnum(module, enum_name))
        ELSE \* Global enum
             make_enum_name({q}, EngineEnum(Str_global, q))

\* ctx.is_engine_class(ty)
is_engine_class(c, t) == t \in c

RECURSIVE to_rust_type(_, _)
to_rust_type(t, c) ==
    IF to_hardcoded_rust_type(t) # NoStr
    THEN ident({to_hardcoded_rust_type(t)}, BuiltinIdent(to_hardcoded_rust_type(t)))
    ELSE IF qualified_enum_of(t) # NoStr
    THEN enum_tokens(qualified_enum_of(t))
    ELSE IF starts_with(t, Str_Packed) /\ ends_with(after_prefix(t, Str_Packed), Str_Array)
    THEN ident({after_prefix(t, Str_Packed)}, BuiltinIdent(after_prefix(t, Str_Packed)))
    ELSE IF ~starts_with(t, Str_Packed) /\ starts_with(t, Str_typedarray)
    THEN LET arr_ty == after_prefix(t, Str_typedarray)
         IN  IF starts_with(arr_ty, Str_Packed)
             THEN ident({after_prefix(arr_ty, Str_Packed)},
                        BuiltinIdent(after_prefix(arr_ty, Str_Packed)))
             ELSE LET elem == to_rust_type(arr_ty, c)
                  IN  IF elem = Panic THEN Panic ELSE BuiltinGeneric(elem)
    ELSE IF is_engine_class(c, t)
    THEN ident({t}, EngineClass(t))
    ELSE ident({t}, BuiltinIdent(t))

(***************************************************************************)
(* Raw type names the resolver is run on: the names of the override table  *)
(* and every concatenation of at most MaxParts parts; the registry answers *)
(* in every possible way for the names the resolver can ask it about.      *)
(***************************************************************************)
Str_Scene == <<"S", "c", "e", "n", "e">>
Str_Foo == <<"F", "o", "o">>
Str_Bar == <<"B", "a", "r">>
Str_Vector3 == <<"V", "e", "c", "t", "o", "r", "3">>
Str_Axis == <<"A", "x", "i", "s">>

Overrides == {Str_int, Str_float, Str_String, Str_enum_Variant_Type,
              Str_enum_Variant_Operator, Str_enum_Vector3_Axis}

TypeParts == {Str_enum, Str_bitfield, Str_typedarray, Str_Packed, Str_Array,
              Str_Scene, Str_Foo, Str_GDNative, <<".">>, <<"2">>, Str_int}

\* the names the specification gives as examples
Examples == {Str_enum \o Str_Foo \o <<".">> \o Str_Bar,
             Str_Packed \o <<"I", "n", "t", "3", "2">> \o Str_Array,
             Str_Packed \o Str_Scene,
             Str_typedarray \o Str_Packed \o <<"B", "y", "t", "e">> \o Str_Array,
             Str_typedarray \o Str_Packed \o Str_Scene}

RawTypeNames == Overrides \cup Examples \cup Concats(TypeParts, MaxParts)

\* t and what is left of it after each leading "typedarray::"
RECURSIVE Asked(_)
Asked(t) ==
    IF starts_with(t, Str_typedarray)
    THEN {t} \cup Asked(after_prefix(t, Str_typedarray))
    ELSE {t}

InitType ==
    /\ pc = "call"
    /\ ty \in RawTypeNames
    /\ ctx \in SUBSET Asked(ty)
    /\ ret = Nothing
    /\ IdleModule
    /\ IdleEnum

\* to_rust_type(ty, ctx) runs and returns, or panics
ToRustType ==
    /\ pc = "call"
    /\ ret' = to_rust_type(ty, ctx)
    /\ pc' = "returned"
    /\ UNCHANGED <<ty, ctx, modVars, enumVars>>

NextType == ToRustType

SpecType == InitType /\ [][NextType]_vars

(***************************************************************************)
(* Claims about to_rust_type, checked under SpecType.                      *)
(***************************************************************************)
\* C1: each name of the override table resolves to BuiltinIdent of the
\* mapped name, whatever the registry answers; the three names with the
\* "enum::" prefix never resolve to EngineEnum.
C1_OverridesFirst ==
    pc = "returned" =>
        /\ ty = Str_int => ret = [tag |-> "BuiltinIdent", ident |-> Str_i64]
        /\ ty = Str_float => ret = [tag |-> "BuiltinIdent", ident |-> Str_f64]
        /\ ty = Str_String => ret = [tag |-> "BuiltinIdent", ident |-> Str_GodotString]
        /\ ty = Str_enum_Variant_Type =>
              ret = [tag |-> "BuiltinIdent", ident |-> Str_VariantType]
        /\ ty = Str_enum_Variant_Operator =>
              ret = [tag |-> "BuiltinIdent", ident |-> Str_VariantOperator]
        /\ ty = Str_enum_Vector3_Axis =>
              ret = [tag |-> "BuiltinIdent", ident |-> Str_Vector3Axis]

\* "enum::Vector3.Axis" has been resolved with a registry that reports it
\* as an engine class
C1_Witness ==
    pc = "returned" /\ ty = Str_enum_Vector3_Axis /\ ty \in ctx

\* C2 as stated: a raw that starts with "Packed" and ends with "Array"
\* resolves to BuiltinIdent of the remainder after "Packed", whatever the
\* registry answers; a raw that starts with "Packed" and does not end with
\* "Array" resolves to EngineClass(raw) when the registry reports raw and to
\* BuiltinIdent(raw) otherwise.
C2_PackedArrayRuleAsStated ==
    (pc = "returned" /\ starts_with(ty, Str_Packed)) =>
        IF ends_with(ty, Str_Array)
        THEN ret = [tag |-> "BuiltinIdent", ident |-> after_prefix(ty, Str_Packed)]
        ELSE IF ty \in ctx
        THEN ret = [tag |-> "EngineClass", class |-> ty]
        ELSE ret = [tag |-> "BuiltinIdent", ident |-> ty]

\* C2 holds of every call that returns: it fails only where ident panics.
PackedArrayRuleOnReturn ==
    (pc = "returned" /\ ret # Panic) => C2_PackedArrayRuleAsStated

\* C3 as stated: for a remainder R that starts with "Packed",
\* "typedarray::" + R resolves to what R resolves to (so R must also end
\* with "Array" to be a packed array); for any other R it resolves to
\* BuiltinGeneric wrapping what R resolves to.
C3_TypedArrayRuleAsStated ==
    (pc = "returned" /\ starts_with(ty, Str_typedarray)) =>
        LET R == after_prefix(ty, Str_typedarray)
        IN  IF starts_with(R, Str_Packed)
            THEN ret = to_rust_type(R, ctx)
            ELSE ret = [tag |-> "BuiltinGeneric", elem |-> to_rust_type(R, ctx)]

\* What the code does for "typedarray::Packed" + S: BuiltinIdent(S) for
\* every identifier S, whether or not S ends with "Array".
TypedArrayPackedOnReturn ==
    (pc = "returned" /\ ret # Panic
        /\ starts_with(ty, Str_typedarray \o Str_Packed)) =>
        ret = [tag |-> "BuiltinIdent",
               ident |-> after_prefix(ty, Str_typedarray \o Str_Packed)]

\* C4 as stated: a raw that is no override name and starts with "enum::" or
\* "bitfield::" resolves to EngineEnum; with a '.' in the remainder the
\* path is to_module_name(class)::Enum, split at the first '.', and without
\* one it is global::<remainder>; "enum::Foo.Bar" gives foo::Bar.
C4_QualifiedEnumRuleAsStated ==
    (pc = "returned" /\ ty \notin Overrides
        /\ (starts_with(ty, Str_enum) \/ starts_with(ty, Str_bitfield))) =>
        LET q == IF starts_with(ty, Str_enum) THEN after_prefix(ty, Str_enum)
                 ELSE after_prefix(ty, Str_bitfield)
            dots == {i \in 1..Len(q) : q[i] = "."}
            dot == CHOOSE i \in dots : \A j \in dots : i <= j
        IN  /\ IF dots # {}
               THEN ret = [tag |-> "EngineEnum",
                           module |-> to_module_name(SubSeq(q, 1, dot - 1)),
                           name |-> SubSeq(q, dot + 1, Len(q))]
               ELSE ret = [tag |-> "EngineEnum", module |-> Str_global, name |-> q]
            /\ ty = Str_enum \o Str_Foo \o <<".">> \o Str_Bar =>
                  ret = [tag |-> "EngineEnum", module |-> <<"f", "o", "o">>,
                         name |-> Str_Bar]

\* C4 holds of every call that returns: it fails only where ident panics.
QualifiedEnumRuleOnReturn ==
    (pc = "returned" /\ ret # Panic) => C4_QualifiedEnumRuleAsStated

\* C5 as stated: every call returns one of the four cases of RustTy, and
\* when no override, qualifier, packed-array or engine-class rule matches it
\* returns BuiltinIdent carrying raw unmodified.
C5_TotalAsStated ==
    pc = "returned" =>
        /\ ret.tag \in {"BuiltinIdent", "BuiltinGeneric", "EngineEnum", "EngineClass"}
        /\ (/\ ty \notin Overrides
            /\ ~starts_with(ty, Str_enum)
            /\ ~starts_with(ty, Str_bitfield)
            /\ ~(starts_with(ty, Str_Packed) /\ ends_with(ty, Str_Array))
            /\ ~starts_with(ty, Str_typedarray)
            /\ ty \notin ctx)
           => ret = [tag |-> "BuiltinIdent", ident |-> ty]

\* The fallback holds of every call that returns.
FallbackOnReturn ==
    (pc = "returned" /\ ret # Panic) => C5_TotalAsStated

(***************************************************************************)
(* make_enum_definition and the operations of the type it generates.       *)
(***************************************************************************)
\* self.ord | rhs.ord on i32. \div and % round down, so the low bit and the
\* rest are those of the two's complement form; no OR leaves the i32 range.
RECURSIVE bit_or(_, _)
bit_or(a, b) ==
    IF a = 0 THEN b
    ELSE IF b = 0 THEN a
    ELSE IF a = -1 \/ b = -1 THEN -1
    ELSE (IF a % 2 = 1 \/ b % 2 = 1 THEN 1 ELSE 0) + 2 * bit_or(a \div 2, b \div 2)

\* faulty variant: & in place of |
RECURSIVE BitAnd(_, _)
BitAnd(a, b) ==
    IF a = 0 \/ b = 0 THEN 0
    ELSE IF a = -1 THEN b
    ELSE IF b = -1 THEN a
    ELSE (IF a % 2 = 1 /\ b % 2 = 1 THEN 1 ELSE 0) + 2 * BitAnd(a \div 2, b \div 2)

\* fn bitor(self, rhs: Self) -> Self::Output
bitor(lhs, rhs) == bit_or(lhs, rhs)

\* the generated definition: one constant per enumerator and, for a
\* bitfield, UNSET and the BitOr impl
make_enum_definition(e) ==
    [enumerators |-> e.values,
     UNSET |-> IF e.is_bitfield THEN <<0>> ELSE <<>>,
     has_bitor |-> e.is_bitfield]

\* the ordinals of the constants of a generated definition
ConstOrds(d) == Range(d.UNSET) \cup {d.enumerators[i].value : i \in 1..Len(d.enumerators)}

MinI32 == -2147483647 - 1
MaxI32 == 2147483647
Ordinals == {1, 2, 4, -1, MinI32}
EnumeratorNames == <<"A", "B", "C", "D", "E", "F">>

\* the descriptors with n enumerators
Descriptors(n) ==
    {[is_bitfield |-> b,
      values |-> [i \in 1..n |-> [name |-> EnumeratorNames[i], value |-> v[i]]]] :
        b \in BOOLEAN, v \in [1..n -> Ordinals]}

InitEnum ==
    /\ pc = "described"
    /\ \E n \in 0..MaxEnumerators : enum_ \in Descriptors(n)
    /\ def = Nothing
    /\ acc = 0
    /\ last = Nothing
    /\ IdleModule
    /\ IdleType

MakeEnumDefinition ==
    /\ pc = "described"
    /\ def' = make_enum_definition(enum_)
    /\ pc' = "defined"
    /\ UNCHANGED <<enum_, acc, last, modVars, typeVars>>

\* the user names a constant of the generated type
UseConstant ==
    /\ pc = "defined"
    /\ \E c \in ConstOrds(def) : acc' = c
    /\ pc' = "value"
    /\ UNCHANGED <<enum_, def, last, modVars, typeVars>>

\* the user combines the value with a constant: acc | c
BitOr ==
    /\ pc = "value"
    /\ def.has_bitor
    /\ \E c \in ConstOrds(def) :
          /\ acc' = bitor(acc, c)
          /\ last' = [lhs |-> acc, rhs |-> c, out |-> acc']
    /\ UNCHANGED <<pc, enum_, def, modVars, typeVars>>

NextEnum == MakeEnumDefinition \/ UseConstant \/ BitOr

SpecEnum == InitEnum /\ [][NextEnum]_vars

(***************************************************************************)
(* Claims about the generated bitfield, checked under SpecEnum.            *)
(***************************************************************************)
\* bit i (0..30) of the two's complement form of x
BitOf(x, i) == (x \div (2 ^ i)) % 2 = 1

\* out is the bitwise OR of a and b, as 32-bit signed integers
IsBitwiseOr(out, a, b) ==
    /\ out \in MinI32..MaxI32
    /\ (out < 0) <=> (a < 0 \/ b < 0)
    /\ \A i \in 0..30 : BitOf(out, i) <=> (BitOf(a, i) \/ BitOf(b, i))

=============================================================================
